---- MODULE Spec2Model ----
(***************************************************************************)
(* State-machine model of static/js/chart.js: the DOMContentLoaded         *)
(* handler (library check, chart construction, listener registration),     *)
(* fetchSymbols, loadData and the four DOM event listeners.                *)
(*                                                                         *)
(* The page's markup is not part of the repository: the six elements the   *)
(* handler looks up (lines 5-10) are taken to exist, the selector to have  *)
(* no option and the date inputs to be empty when the page loads; whether  *)
(* the markup disables the selector is left open.  The backend answers     *)
(* with numeric times (epoch seconds).                                     *)
(*                                                                         *)
(* JavaScript runs each handler to its next `await` without interruption,  *)
(* so every action below is one such run: from the event (or the settling  *)
(* of the awaited promise) to the next suspension or the end of the        *)
(* function, catch and finally blocks included.                            *)
(***************************************************************************)
EXTENDS Integers, Sequences, FiniteSets, Bags, TLC

VARIABLES
    libPresent,     \* window.LightweightCharts is truthy
    domReady,       \* the DOMContentLoaded handler has run
    built,          \* number of chart construction steps completed (lines 24-141)
    listeners,      \* the four listeners of lines 249-268 are registered
    alerts,         \* bag of the alert() messages shown so far
    options,        \* symbolSelect's option elements, in document order
    selIdx,         \* index of the selected option (0: none)
    disabled,       \* symbolSelect.disabled
    symPc,          \* fetchSymbols: "idle", "awaitFetch", "awaitJson", "done", "failed"
    symbolsData,    \* data.symbols of the parsed /symbols response
    symRequests,    \* number of GET /symbols requests issued
    startDate,      \* startDateInput.value
    endDate,        \* endDateInput.value
    loadingActive,  \* loadingDiv.classList contains 'active'
    calls,          \* the loadData activations, in the order they were started
    candle,         \* candleSeries data: [req |-> call that set it, data |-> array]
    volume,         \* volumeSeries data
    vwap,           \* vwapSeries data
    ema,            \* emaSeries data
    markers,        \* candleSeries markers
    fit,            \* call whose chart.timeScale().fitContent() ran last (0: none)
    received,       \* the latest /data response parsed: [call, data]
    legend,         \* the legend element: [display, symbol, time]
    crosshair       \* the crosshair position last reported by the chart

vars == <<libPresent, domReady, built, listeners, alerts, options, selIdx,
          disabled, symPc, symbolsData, symRequests, startDate, endDate,
          loadingActive, calls, candle, volume, vwap, ema, markers, fit,
          received, legend, crosshair>>

domVars    == <<options, selIdx, disabled>>
symVars    == <<symPc, symbolsData, symRequests>>
seriesVars == <<candle, volume, vwap, ema, markers, fit>>
legendVars == <<legend, crosshair>>
initVars   == <<libPresent, domReady, built, listeners>>

----------------------------------------------------------------------------
(* Bounds of the model *)

MaxCalls   == 2   \* loadData activations per behaviour
MaxSymbols == 2   \* length of the symbol list /symbols returns
MaxBars    == 3   \* length of the ohlc and markers arrays /data returns
MaxTime    == 2   \* bar and marker times range over 1..MaxTime

(* Construction steps inside the try block of lines 23-146, in source order:
   1 createChart, 2 legend appended, 3 addCandlestickSeries,
   4 addHistogramSeries, 5 subscribeCrosshairMove, 6 addLineSeries (VWAP),
   7 addLineSeries (EMA), 8 ResizeObserver created and observing. *)
BuildSteps == 8

Symbols == {"AAPL", "MSFT"}
Dates   == {"", "2024-01-02"}   \* values of an <input type=date>

ChartDefined  == built >= 1
CandleDefined == built >= 3
VolumeDefined == built >= 4
VwapDefined   == built >= 6
EmaDefined    == built >= 7

----------------------------------------------------------------------------
(* The symbol selector *)

Option(v, t, d) == [value |-> v, text |-> t, disabled |-> d]

LoadingOption == Option("", "Loading symbols...", TRUE)
SelectOption  == Option("", "Select Symbol", TRUE)
ErrorOption   == Option("", "Error loading symbols", TRUE)

\* HTMLSelectElement.value: the value of the selected option, "" if none
SelectValue == IF selIdx = 0 THEN "" ELSE options[selIdx].value

\* the setter of HTMLSelectElement.value: selects the first option whose
\* value equals v, or none
IndexOfValue(opts, v) ==
    IF \E i \in 1..Len(opts) : opts[i].value = v
    THEN CHOOSE i \in 1..Len(opts) :
            /\ opts[i].value = v
            /\ \A j \in 1..(i - 1) : opts[j].value # v
    ELSE 0

\* lines 166-173: the placeholder, then one option per symbol
PopulatedOptions(syms) ==
    <<SelectOption>> \o [i \in 1..Len(syms) |-> Option(syms[i], syms[i], FALSE)]

\* variant of InitialSelection: line 181 left out, the placeholder stays selected
PlaceholderSelection(syms) == 1

\* lines 180-183: the selection after the options are populated
InitialSelection(syms) ==
    IF Len(syms) > 0 THEN IndexOfValue(PopulatedOptions(syms), syms[1]) ELSE 1

----------------------------------------------------------------------------
(* Alert texts *)

LibAlert       == "Error: Chart library not loaded. Check connection or file path."
ChartInitAlert == "Error initializing chart: "
SymbolsAlert   == "Failed to load symbols: "
NoDataAlert    == "No data found for the selected criteria."
LoadErrorAlert(symbol) == "Error loading data for " \o symbol

HttpErrorMessage == "HTTP error! status: 500"
NetworkMessage   == "Failed to fetch"
ParseMessage     == "Unexpected token"
TypeErrorMessage == "Cannot read properties of undefined"

\* alerts after alert(message)
Alerted(message) == alerts (+) SetToBag({message})

\* the legend element as line 46 leaves it: no display property set, no content
NewLegend == [display |-> "", symbol |-> "", time |-> 0]

----------------------------------------------------------------------------
Init ==
    /\ libPresent \in BOOLEAN
    /\ domReady = FALSE
    /\ built = 0
    /\ listeners = FALSE
    /\ alerts = EmptyBag
    /\ options = <<>>
    /\ selIdx = 0
    /\ disabled \in BOOLEAN
    /\ symPc = "idle"
    /\ symbolsData = <<>>
    /\ symRequests = 0
    /\ startDate = ""
    /\ endDate = ""
    /\ loadingActive = FALSE
    /\ calls = <<>>
    /\ candle  = [req |-> 0, data |-> <<>>]
    /\ volume  = [req |-> 0, data |-> <<>>]
    /\ vwap    = [req |-> 0, data |-> <<>>]
    /\ ema     = [req |-> 0, data |-> <<>>]
    /\ markers = [req |-> 0, data |-> <<>>]
    /\ fit = 0
    /\ received = [call |-> 0, data |-> [none |-> TRUE]]
    /\ legend = NewLegend
    /\ crosshair = [time |-> 0]

----------------------------------------------------------------------------
(* DOMContentLoaded handler, lines 2-269 *)

\* variant of LibraryLoaded: the library check of lines 13-17 left out
LibraryAssumed == TRUE

\* line 13: the guard `window.LightweightCharts` of the library check
LibraryLoaded == libPresent

\* message of the exception a failing construction step throws
ConstructionMessage == "construction failed"

\* fetchSymbols from its call at line 149 to its first await (lines 152-160)
FetchSymbolsStart ==
    /\ options' = <<LoadingOption>>
    /\ selIdx' = 1
    /\ disabled' = TRUE
    /\ symPc' = "awaitFetch"
    /\ symRequests' = symRequests + 1
    /\ UNCHANGED symbolsData

\* variant of DOMContentLoaded: no catch around the construction, so that an
\* exception of a construction step ends the handler
DOMContentLoadedUncaught ==
    /\ ~domReady
    /\ domReady' = TRUE
    /\ IF ~LibraryLoaded
       THEN /\ alerts' = Alerted(LibAlert)
            /\ UNCHANGED <<built, listeners, domVars, symVars>>
       ELSE \E done \in 0..BuildSteps :
            /\ built' = done
            /\ IF done < BuildSteps
               THEN UNCHANGED <<alerts, listeners, domVars, symVars>>
               ELSE /\ UNCHANGED alerts
                    /\ FetchSymbolsStart
                    /\ listeners' = TRUE
    /\ UNCHANGED <<libPresent, startDate, endDate, loadingActive, calls, seriesVars,
                   received,
                   legendVars>>

\* The whole handler: the library check (12-17), the construction try/catch
\* (23-146, `done` steps complete before one throws), the synchronous part of
\* fetchSymbols (149) and the listener registrations (249-268).
DOMContentLoaded ==
    /\ ~domReady
    /\ domReady' = TRUE
    /\ IF ~LibraryLoaded
       THEN /\ alerts' = Alerted(LibAlert)
            /\ UNCHANGED <<built, listeners, domVars, symVars>>
       ELSE \E done \in 0..BuildSteps :
            /\ built' = done
            /\ alerts' = IF done < BuildSteps
                         THEN Alerted(ChartInitAlert \o ConstructionMessage)
                         ELSE alerts
            /\ FetchSymbolsStart
            /\ listeners' = TRUE
    /\ UNCHANGED <<libPresent, startDate, endDate, loadingActive, calls, seriesVars,
                   received,
                   legendVars>>

----------------------------------------------------------------------------
(* fetchSymbols, lines 152-189 *)

SeqsUpTo(S, n) == UNION {[1..k -> S] : k \in 0..n}

\* what GET /symbols can answer once its body is read: invalid JSON, an object
\* without a symbols array, or {symbols: [...]}
AllSymbolResponses ==
    {[invalid |-> TRUE], [other |-> TRUE]}
        \cup {[symbols |-> l] : l \in SeqsUpTo(Symbols, MaxSymbols)}

\* the answers of the control-flow specification: the two failures, an
\* empty list and a list of two symbols
SymbolResponses ==
    {[invalid |-> TRUE], [other |-> TRUE],
     [symbols |-> <<>>], [symbols |-> <<"AAPL", "MSFT">>]}

\* variant of SymbolsCatch: the catch block re-enables the selector
SymbolsCatchEnabling(message) ==
    /\ options' = <<ErrorOption>>
    /\ selIdx' = 1
    /\ alerts' = Alerted(SymbolsAlert \o message)
    /\ symPc' = "failed"
    /\ disabled' = FALSE

\* catch block, lines 184-188
SymbolsCatch(message) ==
    /\ options' = <<ErrorOption>>
    /\ selIdx' = 1
    /\ alerts' = Alerted(SymbolsAlert \o message)
    /\ symPc' = "failed"
    /\ UNCHANGED disabled

\* `await fetch('/symbols')` settles: lines 160-162 up to `await response.json()`
SymbolsFetchSettle ==
    /\ symPc = "awaitFetch"
    /\ \E r \in {"ok", "notOk", "rejected"} :
        IF r = "ok"
        THEN /\ symPc' = "awaitJson"
             /\ UNCHANGED <<alerts, domVars>>
        ELSE SymbolsCatch(IF r = "notOk" THEN HttpErrorMessage ELSE NetworkMessage)
    /\ UNCHANGED <<symbolsData, symRequests, initVars, startDate, endDate,
                   loadingActive, calls, seriesVars, received,
                   legendVars>>

\* variant of SymbolsJsonSettle: the pre-selected first symbol is loaded at
\* once (loadData(data.symbols[0]) after line 181)
SymbolsJsonSettleAutoLoad(d) ==
    /\ symPc = "awaitJson"
    /\  IF "invalid" \in DOMAIN d
        THEN SymbolsCatch(ParseMessage) /\ UNCHANGED <<symbolsData, loadingActive, calls>>
        ELSE IF "symbols" \notin DOMAIN d
        THEN SymbolsCatch(TypeErrorMessage) /\ UNCHANGED <<symbolsData, loadingActive, calls>>
        ELSE /\ symbolsData' = d.symbols
             /\ options' = PopulatedOptions(d.symbols)
             /\ disabled' = FALSE
             /\ selIdx' = InitialSelection(d.symbols)
             /\ symPc' = "done"
             /\ UNCHANGED alerts
             /\ IF Len(d.symbols) > 0
                THEN /\ loadingActive' = TRUE
                     /\ calls' = Append(calls, [pc |-> "awaitFetch", symbol |-> d.symbols[1],
                                                url |-> "/data/" \o d.symbols[1], hides |-> 0])
                ELSE UNCHANGED <<loadingActive, calls>>
    /\ UNCHANGED <<symRequests, initVars, startDate, endDate, seriesVars, received,
                   legendVars>>

\* `await response.json()` settles: lines 162-183, or the catch block
SymbolsJsonSettle(d) ==
    /\ symPc = "awaitJson"
    /\  IF "invalid" \in DOMAIN d
        THEN SymbolsCatch(ParseMessage) /\ UNCHANGED symbolsData
        ELSE IF "symbols" \notin DOMAIN d
        THEN SymbolsCatch(TypeErrorMessage) /\ UNCHANGED symbolsData
        ELSE /\ symbolsData' = d.symbols
             /\ options' = PopulatedOptions(d.symbols)
             /\ disabled' = FALSE
             /\ selIdx' = InitialSelection(d.symbols)
             /\ symPc' = "done"
             /\ UNCHANGED alerts
    /\ UNCHANGED <<symRequests, initVars, startDate, endDate,
                   loadingActive, calls, seriesVars, received,
                   legendVars>>

----------------------------------------------------------------------------
(* Data of a /data/{symbol} response *)

\* A bar or a marker: its time, and `id`, the object's identity (its index in
\* the array as received), which tells apart two elements of equal time.
BarArray(times) == [i \in 1..Len(times) |-> [time |-> times[i], id |-> i]]

\* the volume / vwap / ema arrays are handed to the series as received
Points == <<[time |-> 1, value |-> 1]>>

FullBody(ohlcTimes, markerTimes) ==
    [ohlc    |-> BarArray(ohlcTimes),
     volume  |-> Points,
     vwap    |-> Points,
     ema     |-> Points,
     markers |-> BarArray(markerTimes)]

\* a JSON text that does not parse: response.json() rejects
InvalidJson == [invalid |-> TRUE]

\* a JSON object lacking one field
Without(body, field) == [f \in DOMAIN body \ {field} |-> body[f]]

SampleBody  == FullBody(<<2, 1>>, <<2, 1>>)

\* the response bodies of the control-flow specification: invalid JSON, no
\* ohlc field, empty ohlc, a full response, and a response lacking one field
Bodies ==
    {InvalidJson, FullBody(<<>>, <<>>), SampleBody}
        \cup {Without(SampleBody, f) : f \in {"ohlc", "volume", "vwap", "ema", "markers"}}

\* lines 225 and 234: the comparator (a, b) => a.time - b.time
Compare(a, b) == a.time - b.time

\* Array.prototype.sort with that comparator (a stable sort): insertion of x
\* behind the last element that does not compare greater
RECURSIVE Insert(_, _)
Insert(sorted, x) ==
    IF Len(sorted) = 0 THEN <<x>>
    ELSE IF Compare(sorted[Len(sorted)], x) <= 0 THEN Append(sorted, x)
    ELSE Append(Insert(SubSeq(sorted, 1, Len(sorted) - 1), x), sorted[Len(sorted)])

RECURSIVE SortByTime(_)
SortByTime(arr) ==
    IF Len(arr) = 0 THEN <<>>
    ELSE Insert(SortByTime(SubSeq(arr, 1, Len(arr) - 1)), arr[Len(arr)])

\* variant of SortedOhlc: the array passed on as received
UnsortedOhlc(data) == data.ohlc

\* line 225: sortedOhlc
SortedOhlc(data) == SortByTime(data.ohlc)

\* variant of SortedMarkers: the markers passed on as received
UnsortedMarkers(data) == data.markers

\* line 234: the argument of setMarkers
SortedMarkers(data) == SortByTime(data.markers)

\* variant of OhlcEmpty: only `!data.ohlc`, the length test left out
OhlcMissing(data) == "ohlc" \notin DOMAIN data

\* line 219: !data.ohlc || data.ohlc.length === 0
OhlcEmpty(data) == "ohlc" \notin DOMAIN data \/ Len(data.ohlc) = 0

----------------------------------------------------------------------------
(* loadData, lines 192-246 *)

\* variant of QueryString: both parameters appended whatever the inputs hold
QueryStringAlways(sd, ed) == "start_date=" \o sd \o "&end_date=" \o ed

\* URLSearchParams.toString(): name=value pairs joined by "&"; the characters
\* of a date input's value (digits and "-") are not percent-encoded
QueryString(sd, ed) ==
    LET s == IF sd # "" THEN "start_date=" \o sd ELSE ""
        e == IF ed # "" THEN "end_date=" \o ed ELSE ""
    IN  IF s # "" /\ e # "" THEN s \o "&" \o e ELSE s \o e

\* lines 202-209
BuildUrl(symbol, sd, ed) ==
    LET q == QueryString(sd, ed)
    IN  "/data/" \o symbol \o (IF q # "" THEN "?" \o q ELSE "")

\* variant of SymbolGiven: the guard of line 193 left out
AnySymbol(symbol) == TRUE

\* line 193: the guard `if (!symbol) return` lets the call proceed
SymbolGiven(symbol) == symbol # ""

\* a loadData activation: suspended at `await fetch(url)`, suspended at
\* `await response.json()`, or returned; hides counts its executions of line 244. The outcome of a
\* returned activation: "rendered" (line 237 reached), "noData" (the return
\* of line 221), "fetchFailed" (line 212, 213 or 214 threw) or "renderError"
\* (a line of 228-237 threw)
Fetching(symbol, url)        == [pc |-> "awaitFetch", symbol |-> symbol, url |-> url, hides |-> 0]
Parsing(symbol)              == [pc |-> "awaitJson", symbol |-> symbol, hides |-> 0]
Returned(symbol, outcome, h) == [pc |-> "done", symbol |-> symbol, outcome |-> outcome, hides |-> h]

InFlight(i) == calls[i].pc # "done"

\* the activations suspended at the given await
Awaiting(pc) == {i \in 1..Len(calls) : calls[i].pc = pc}

\* loadData skipping the request when an activation for the same symbol is
\* still in flight
LoadDataStartOnce(symbol, sd, ed) ==
    IF SymbolGiven(symbol) /\ ~\E i \in 1..Len(calls) : InFlight(i) /\ calls[i].symbol = symbol
    THEN /\ Len(calls) < MaxCalls
         /\ loadingActive' = TRUE
         /\ calls' = Append(calls, Fetching(symbol, BuildUrl(symbol, sd, ed)))
    ELSE UNCHANGED <<loadingActive, calls>>

\* loadData(symbol) from its call to `await fetch(url)`, lines 192-212, with
\* the date inputs reading sd and ed
LoadDataStart(symbol, sd, ed) ==
    IF SymbolGiven(symbol)
    THEN /\ Len(calls) < MaxCalls
         /\ loadingActive' = TRUE
         /\ calls' = Append(calls, Fetching(symbol, BuildUrl(symbol, sd, ed)))
    ELSE UNCHANGED <<loadingActive, calls>>

\* finally block, lines 242-245, ending activation i with the given outcome
Finally(i, outcome) ==
    /\ loadingActive' = FALSE
    /\ calls' = [calls EXCEPT ![i] = Returned(calls[i].symbol, outcome, calls[i].hides + 1)]

\* variant of CatchFinally: the indicator hidden at the end of the try block
\* instead of in a finally block, so that the error path leaves it shown
CatchOnly(i, outcome) ==
    /\ alerts' = Alerted(LoadErrorAlert(calls[i].symbol))
    /\ calls' = [calls EXCEPT ![i] = Returned(calls[i].symbol, outcome, calls[i].hides)]
    /\ UNCHANGED loadingActive

\* catch block, lines 239-241, then the finally block
CatchFinally(i, outcome) ==
    /\ alerts' = Alerted(LoadErrorAlert(calls[i].symbol))
    /\ Finally(i, outcome)

\* what `await fetch(url)` can settle with: a 2xx response, a non-2xx
\* response, or a rejection (network error)
Responses == {"ok", "notOk", "rejected"}

\* variant of LoadFetchSettle: the failure path also empties the candle series
LoadFetchSettleClearing(i, r) ==
    /\ calls[i].pc = "awaitFetch"
    /\ IF r = "ok"
       THEN /\ calls' = [calls EXCEPT ![i] = Parsing(calls[i].symbol)]
            /\ UNCHANGED <<alerts, loadingActive, candle>>
       ELSE /\ CatchFinally(i, "fetchFailed")
            /\ candle' = [req |-> i, data |-> <<>>]
    /\ UNCHANGED <<initVars, domVars, symVars, startDate, endDate,
                   volume, vwap, ema, markers, fit, received,
                   legendVars>>

\* `await fetch(url)` of activation i settles with r: lines 212-214 up to
\* `await response.json()`
LoadFetchSettle(i, r) ==
    /\ calls[i].pc = "awaitFetch"
    /\ IF r = "ok"
       THEN /\ calls' = [calls EXCEPT ![i] = Parsing(calls[i].symbol)]
            /\ UNCHANGED <<alerts, loadingActive>>
       ELSE CatchFinally(i, "fetchFailed")
    /\ UNCHANGED <<initVars, domVars, symVars, startDate, endDate, seriesVars,
                   received,
                   legendVars>>

\* The first render step of lines 228-237 that throws, 0 if none:
\* 1 candleSeries.setData, 2 volumeSeries.setData, 3 vwapSeries.setData,
\* 4 emaSeries.setData, 5 data.markers.sort / setMarkers, 6 fitContent.
\* A series left unassigned by a failed construction throws a TypeError; so
\* does sorting a missing markers array. The charting library is not part of
\* the repository: whether its setData throws when handed undefined is left
\* open, strict being the case that it does. fitContent cannot throw first,
\* the chart being created before the candle series.
RenderThrowStep(data, strict) ==
    IF ~CandleDefined THEN 1
    ELSE IF ~VolumeDefined \/ ("volume" \notin DOMAIN data /\ strict) THEN 2
    ELSE IF ~VwapDefined \/ ("vwap" \notin DOMAIN data /\ strict) THEN 3
    ELSE IF ~EmaDefined \/ ("ema" \notin DOMAIN data /\ strict) THEN 4
    ELSE IF "markers" \notin DOMAIN data THEN 5
    ELSE 0

\* the array a series holds after setData(data[field])
Passed(data, field) == IF field \in DOMAIN data THEN data[field] ELSE <<>>

\* variant of Render: the markers are set before the candle data
RenderMarkersFirst(i, data, strict) ==
    LET t == RenderThrowStep(data, strict)
        first == CandleDefined /\ "markers" \in DOMAIN data
        ran(step) == first /\ (t = 0 \/ t > step)
    IN  /\ markers' = IF first THEN [req |-> i, data |-> SortedMarkers(data)] ELSE markers
        /\ candle'  = IF ran(1) THEN [req |-> i, data |-> SortedOhlc(data)] ELSE candle
        /\ volume'  = IF ran(2) THEN [req |-> i, data |-> Passed(data, "volume")] ELSE volume
        /\ vwap'    = IF ran(3) THEN [req |-> i, data |-> Passed(data, "vwap")] ELSE vwap
        /\ ema'     = IF ran(4) THEN [req |-> i, data |-> Passed(data, "ema")] ELSE ema
        /\ fit'     = IF t = 0 THEN i ELSE fit
        /\ IF t = 0 THEN Finally(i, "rendered") /\ UNCHANGED alerts
           ELSE CatchFinally(i, "renderError")

\* lines 224-237 for activation i: every step before the throwing one acts
Render(i, data, strict) ==
    LET t == RenderThrowStep(data, strict)
        ran(step) == t = 0 \/ t > step
    IN  /\ candle'  = IF ran(1) THEN [req |-> i, data |-> SortedOhlc(data)] ELSE candle
        /\ volume'  = IF ran(2) THEN [req |-> i, data |-> Passed(data, "volume")] ELSE volume
        /\ vwap'    = IF ran(3) THEN [req |-> i, data |-> Passed(data, "vwap")] ELSE vwap
        /\ ema'     = IF ran(4) THEN [req |-> i, data |-> Passed(data, "ema")] ELSE ema
        /\ markers' = IF ran(5) THEN [req |-> i, data |-> SortedMarkers(data)] ELSE markers
        /\ fit'     = IF ran(6) THEN i ELSE fit
        /\ IF t = 0
           THEN Finally(i, "rendered") /\ UNCHANGED alerts
           ELSE CatchFinally(i, "renderError")

\* variant of LoadJsonSettle: a response is dropped when a later activation
\* has been started since (a request-generation check)
LoadJsonSettleLatestOnly(i, body, strict) ==
    /\ calls[i].pc = "awaitJson"
    /\ IF "invalid" \in DOMAIN body
       THEN CatchFinally(i, "fetchFailed") /\ UNCHANGED <<seriesVars, received>>
       ELSE /\ received' = [call |-> i, data |-> body]
            /\ IF i < Len(calls)
               THEN Finally(i, "noData") /\ UNCHANGED <<alerts, seriesVars>>
               ELSE IF OhlcEmpty(body)
               THEN /\ alerts' = Alerted(NoDataAlert)
                    /\ Finally(i, "noData")
                    /\ UNCHANGED seriesVars
               ELSE Render(i, body, strict)
    /\ UNCHANGED <<initVars, domVars, symVars, startDate, endDate, legendVars>>

\* `await response.json()` of activation i settles, the response body being
\* `body`: lines 214-245
LoadJsonSettle(i, body, strict) ==
    /\ calls[i].pc = "awaitJson"
    /\ IF "invalid" \in DOMAIN body
       THEN CatchFinally(i, "fetchFailed") /\ UNCHANGED <<seriesVars, received>>
       ELSE /\ received' = [call |-> i, data |-> body]
            /\ IF OhlcEmpty(body)
               THEN /\ alerts' = Alerted(NoDataAlert)
                    /\ Finally(i, "noData")
                    /\ UNCHANGED seriesVars
               ELSE Render(i, body, strict)
    /\ UNCHANGED <<initVars, domVars, symVars, startDate, endDate, legendVars>>

----------------------------------------------------------------------------
(* Event listeners, lines 248-268 *)

\* click on the load button, lines 249-251
ClickLoad ==
    /\ IF listeners
       THEN LoadDataStart(SelectValue, startDate, endDate)
       ELSE UNCHANGED <<loadingActive, calls>>
    /\ UNCHANGED <<initVars, alerts, domVars, symVars, startDate, endDate, seriesVars,
                   received,
                   legendVars>>

\* the user picks another option of the enabled selector; lines 253-255
SelectChange ==
    /\ ~disabled
    /\ \E i \in 1..Len(options) :
        /\ ~options[i].disabled
        /\ i # selIdx
        /\ selIdx' = i
        /\ IF listeners
           THEN LoadDataStart(options[i].value, startDate, endDate)
           ELSE UNCHANGED <<loadingActive, calls>>
    /\ UNCHANGED <<initVars, alerts, options, disabled, symVars, startDate,
                   endDate, seriesVars, received,
                   legendVars>>

\* the user changes the start date; lines 258-262
StartDateChange ==
    /\ \E d \in Dates \ {startDate} :
        /\ startDate' = d
        /\ IF listeners /\ SelectValue # ""
           THEN LoadDataStart(SelectValue, d, endDate)
           ELSE UNCHANGED <<loadingActive, calls>>
    /\ UNCHANGED <<initVars, alerts, domVars, symVars, endDate, seriesVars, received,
                   legendVars>>

\* the user changes the end date; lines 264-268
EndDateChange ==
    /\ \E d \in Dates \ {endDate} :
        /\ endDate' = d
        /\ IF listeners /\ SelectValue # ""
           THEN LoadDataStart(SelectValue, startDate, d)
           ELSE UNCHANGED <<loadingActive, calls>>
    /\ UNCHANGED <<initVars, alerts, domVars, symVars, startDate, seriesVars, received,
                   legendVars>>

----------------------------------------------------------------------------
(* The crosshair legend, lines 43-47 and 71-117 *)

\* container.clientWidth and container.clientHeight (lines 76, 78)
ClientWidth  == 2
ClientHeight == 1

\* positions the chart reports: the corners of the container and positions
\* one pixel outside each of its four edges
CursorPoints ==
    {[x |-> 0, y |-> 0], [x |-> ClientWidth, y |-> ClientHeight],
     [x |-> 0 - 1, y |-> 0], [x |-> ClientWidth + 1, y |-> ClientHeight],
     [x |-> 0, y |-> 0 - 1], [x |-> ClientWidth, y |-> ClientHeight + 1]}

\* the param of a crosshair-move event: point absent when undefined, time 0
\* when the crosshair is at no bar (undefined, falsy like 0 itself)
Params ==
    {[time |-> t] : t \in 0..MaxTime}
        \cup {[point |-> pt, time |-> t] : pt \in CursorPoints, t \in 0..MaxTime}

\* the condition of lines 72-79
OutOfChart(param) ==
    \/ "point" \notin DOMAIN param
    \/ param.time = 0
    \/ param.point.x < 0
    \/ param.point.x > ClientWidth
    \/ param.point.y < 0
    \/ param.point.y > ClientHeight

\* line 86: param.seriesData.get(candleSeries) is defined when the candle
\* series holds a bar at param.time
HasCandleData(param) ==
    \E k \in 1..Len(candle.data) : candle.data[k].time = param.time

\* line 109
CurrentSymbol == IF SelectValue # "" THEN SelectValue ELSE "N/A"

\* lines 81 and 91
HideLegend == legend' = [legend EXCEPT !.display = "none"]

\* variant of CrosshairMove: the legend is left as it is when the crosshair
\* is outside the chart or at no candle
CrosshairMoveWithoutHide(param) ==
    /\ built >= 5
    /\ crosshair' = param
    /\ IF OutOfChart(param) \/ ~HasCandleData(param)
       THEN UNCHANGED legend
       ELSE legend' = [display |-> "block", symbol |-> CurrentSymbol, time |-> param.time]
    /\ UNCHANGED <<initVars, alerts, domVars, symVars, startDate, endDate,
                   loadingActive, calls, seriesVars, received>>

\* The crosshair-move callback (71-117), called by the chart once the
\* subscription of line 71 exists.  The legend's content is its symbol line
\* and the time of the bar whose date and values it shows.
CrosshairMove(param) ==
    /\ built >= 5
    /\ crosshair' = param
    /\ IF OutOfChart(param)
       THEN HideLegend
       ELSE IF ~HasCandleData(param)
       THEN HideLegend
       ELSE legend' = [display |-> "block", symbol |-> CurrentSymbol, time |-> param.time]
    /\ UNCHANGED <<initVars, alerts, domVars, symVars, startDate, endDate,
                   loadingActive, calls, seriesVars, received>>

----------------------------------------------------------------------------
Next ==
    \/ DOMContentLoaded
    \/ SymbolsFetchSettle
    \/ \E d \in SymbolResponses : SymbolsJsonSettle(d)
    \/ ClickLoad
    \/ SelectChange
    \/ StartDateChange
    \/ EndDateChange
    \/ \E i \in Awaiting("awaitFetch"), r \in Responses : LoadFetchSettle(i, r)
    \/ \E i \in Awaiting("awaitJson"), body \in Bodies, strict \in BOOLEAN :
        LoadJsonSettle(i, body, strict)

Spec == Init /\ [][Next]_vars

----------------------------------------------------------------------------
(* Specification of the symbol fetch alone: page load, the fetch with every
   symbol list up to MaxSymbols, and selector changes *)

SymbolsNext ==
    \/ DOMContentLoaded
    \/ SymbolsFetchSettle
    \/ \E d \in AllSymbolResponses : SymbolsJsonSettle(d)
    \/ SelectChange

SymbolsSpec == Init /\ [][SymbolsNext]_vars

----------------------------------------------------------------------------
(* Specification of one loadData activation over every ohlc and marker array
   up to MaxBars elements with times in 1..MaxTime.  It starts in the state of
   Spec in which the page has loaded with the chart constructed, the symbols
   AAPL and MSFT have been fetched, and a click on the load button has
   started the activation, which awaits its fetch (under Spec, TLC finds
   ~RenderInit violated: the state is reachable). *)

TimeSeqs == SeqsUpTo(1..MaxTime, MaxBars)

AllBodies == {FullBody(o, m) : o \in TimeSeqs, m \in TimeSeqs}

RenderInit ==
    /\ libPresent = TRUE
    /\ domReady = TRUE
    /\ built = BuildSteps
    /\ listeners = TRUE
    /\ alerts = EmptyBag
    /\ options = PopulatedOptions(<<"AAPL", "MSFT">>)
    /\ selIdx = 2
    /\ disabled = FALSE
    /\ symPc = "done"
    /\ symbolsData = <<"AAPL", "MSFT">>
    /\ symRequests = 1
    /\ startDate = ""
    /\ endDate = ""
    /\ loadingActive = TRUE
    /\ calls = <<Fetching("AAPL", "/data/AAPL")>>
    /\ candle  = [req |-> 0, data |-> <<>>]
    /\ volume  = [req |-> 0, data |-> <<>>]
    /\ vwap    = [req |-> 0, data |-> <<>>]
    /\ ema     = [req |-> 0, data |-> <<>>]
    /\ markers = [req |-> 0, data |-> <<>>]
    /\ fit = 0
    /\ received = [call |-> 0, data |-> [none |-> TRUE]]
    /\ legend = NewLegend
    /\ crosshair = [time |-> 0]

RenderNext ==
    \/ \E i \in Awaiting("awaitFetch"), r \in Responses : LoadFetchSettle(i, r)
    \/ \E i \in Awaiting("awaitJson"), body \in AllBodies : LoadJsonSettle(i, body, TRUE)

RenderSpec == RenderInit /\ [][RenderNext]_vars

----------------------------------------------------------------------------
(* The legend under crosshair moves, selector changes and loads.  The        *)
(* callback writes the legend only and no other handler reads or writes it,  *)
(* so Spec leaves the crosshair still; here the page has loaded, the chart   *)
(* is complete and the symbol list has arrived.                              *)

LegendBodies == {SampleBody, FullBody(<<1>>, <<>>)}

LegendInit ==
    /\ libPresent = TRUE
    /\ domReady = TRUE
    /\ built = BuildSteps
    /\ listeners = TRUE
    /\ alerts = EmptyBag
    /\ options = PopulatedOptions(<<"AAPL", "MSFT">>)
    /\ selIdx = 2
    /\ disabled = FALSE
    /\ symPc = "done"
    /\ symbolsData = <<"AAPL", "MSFT">>
    /\ symRequests = 1
    /\ startDate = ""
    /\ endDate = ""
    /\ loadingActive = FALSE
    /\ calls = <<>>
    /\ candle  = [req |-> 0, data |-> <<>>]
    /\ volume  = [req |-> 0, data |-> <<>>]
    /\ vwap    = [req |-> 0, data |-> <<>>]
    /\ ema     = [req |-> 0, data |-> <<>>]
    /\ markers = [req |-> 0, data |-> <<>>]
    /\ fit = 0
    /\ received = [call |-> 0, data |-> [none |-> TRUE]]
    /\ legend = NewLegend
    /\ crosshair = [time |-> 0]

LegendNext ==
    \/ SelectChange
    \/ ClickLoad
    \/ \E i \in Awaiting("awaitFetch"), r \in Responses : LoadFetchSettle(i, r)
    \/ \E i \in Awaiting("awaitJson"), body \in LegendBodies : LoadJsonSettle(i, body, TRUE)
    \/ \E param \in Params : CrosshairMove(param)

LegendSpec == LegendInit /\ [][LegendNext]_vars

----------------------------------------------------------------------------
(* Helpers of the properties *)

HasReturned(i)    == calls[i].pc = "done"
AllReturned     == \A i \in 1..Len(calls) : HasReturned(i)
SomeInFlight    == \E i \in 1..Len(calls) : InFlight(i)

\* activation i returns in this step
Returns(i)      == InFlight(i) /\ calls'[i].pc = "done"

\* activation i parses its response in this step
Parses(i)       == calls[i].pc = "awaitJson" /\ received'.call = i /\ received.call # i

IsSortedByTime(arr) == \A k \in 1..(Len(arr) - 1) : arr[k].time <= arr[k + 1].time

Count(arr, x) == Cardinality({k \in 1..Len(arr) : arr[k] = x})

IsPermutation(a, b) ==
    /\ Len(a) = Len(b)
    /\ \A k \in 1..Len(b) : Count(a, b[k]) = Count(b, b[k])

SymbolsAlerts ==
    {SymbolsAlert \o m :
        m \in {HttpErrorMessage, NetworkMessage, ParseMessage, TypeErrorMessage}}

----------------------------------------------------------------------------
(* Properties *)

\* C1: every loadData activation that has returned executed the hiding of the
\* loading indicator once, whatever its exit path (rendered, empty ohlc,
\* failed fetch or parse, exception while rendering), and whenever no
\* activation is in progress the indicator is hidden.
LoadingHiddenOnExit ==
    /\ \A i \in 1..Len(calls) : HasReturned(i) => calls[i].hides = 1
    /\ AllReturned => ~loadingActive

\* C1 witness: two activations have returned, one through an exception while
\* rendering and one through a failed fetch, and the indicator is hidden.
LoadingHiddenOnExitWitness ==
    /\ Len(calls) = 2
    /\ AllReturned
    /\ calls[1].outcome = "renderError"
    /\ calls[2].outcome = "fetchFailed"
    /\ ~loadingActive

\* C2: the step in which an activation returns because its fetch failed
\* (non-2xx, rejection or parse error) hides the indicator, that being the
\* activation's only hide, adds exactly the alert "Error loading data for
\* <symbol>", and leaves the four series' data and the markers unchanged.
FetchFailureKeepsChart ==
    [][\A i \in 1..Len(calls) :
        (Returns(i) /\ calls'[i].outcome = "fetchFailed")
            => /\ calls'[i].hides = 1
               /\ ~loadingActive'
               /\ alerts' = Alerted(LoadErrorAlert(calls[i].symbol))
               /\ UNCHANGED <<candle, volume, vwap, ema, markers>>]_vars

\* C2 witness: the second activation returned on a failed fetch while the
\* chart still shows what the first one rendered.
FetchFailureKeepsChartWitness ==
    /\ Len(calls) = 2
    /\ AllReturned
    /\ calls[1].outcome = "rendered"
    /\ calls[2].outcome = "fetchFailed"
    /\ candle.req = 1 /\ volume.req = 1 /\ vwap.req = 1 /\ ema.req = 1
    /\ markers.req = 1
    /\ alerts = SetToBag({LoadErrorAlert(SelectValue)})

\* C3: the step in which an activation parses a response whose ohlc array is
\* missing or empty adds exactly the alert "No data found...", changes no
\* series, no markers and does not fit the chart, and hides the indicator.
EmptyOhlcKeepsChart ==
    [][\A i \in 1..Len(calls) :
        (Parses(i) /\ ("ohlc" \notin DOMAIN received'.data
                        \/ Len(received'.data.ohlc) = 0))
            => /\ Returns(i)
               /\ calls'[i].outcome = "noData"
               /\ alerts' = Alerted(NoDataAlert)
               /\ UNCHANGED seriesVars
               /\ ~loadingActive']_vars

\* C3 witness: the second activation returned on a response without ohlc
\* while the chart shows what the first one rendered.
EmptyOhlcKeepsChartWitness ==
    /\ Len(calls) = 2
    /\ AllReturned
    /\ calls[2].outcome = "noData"
    /\ received.call = 2
    /\ "ohlc" \notin DOMAIN received.data
    /\ candle.req = 1 /\ fit = 1
    /\ alerts = SetToBag({NoDataAlert})
    /\ ~loadingActive

\* C4: a complete response is rendered in the step that parses it whatever
\* activations have been started since: with the chart fully constructed,
\* all four series, the markers and the fit are then those of its activation.
StaleResponseRendered ==
    [][\A i \in 1..Len(calls) :
        (/\ Parses(i)
         /\ built = BuildSteps
         /\ DOMAIN received'.data = {"ohlc", "volume", "vwap", "ema", "markers"}
         /\ Len(received'.data.ohlc) > 0)
            => /\ candle'.req = i /\ volume'.req = i /\ vwap'.req = i
               /\ ema'.req = i /\ markers'.req = i /\ fit' = i]_vars

\* C4 witness: two overlapping activations have both rendered and returned,
\* the first one parsing its response last, and the chart shows the data of
\* the first, not of the most recently started one.
StaleResponseShown ==
    /\ Len(calls) = 2
    /\ AllReturned
    /\ calls[1].outcome = "rendered"
    /\ calls[2].outcome = "rendered"
    /\ received.call = 1
    /\ candle.req = 1 /\ volume.req = 1 /\ vwap.req = 1 /\ ema.req = 1
    /\ markers.req = 1 /\ fit = 1

\* C5 (as claimed): whenever a data request is in flight, the loading
\* indicator is active.
IndicatorWhileInFlight == SomeInFlight => loadingActive

\* C6: once the symbol fetch has failed the selector shows only the error
\* placeholder, one "Failed to load symbols" alert has been shown, /symbols
\* has been requested once, and no data request has been issued.
SymbolFailureIsFinal ==
    symPc = "failed" =>
        /\ options = <<ErrorOption>>
        /\ selIdx = 1
        /\ \E m \in SymbolsAlerts : CopiesIn(m, alerts) = 1
        /\ symRequests = 1
        /\ calls = <<>>

\* C6 witness: the symbol fetch has failed and the user has changed both
\* date inputs.
SymbolFailureIsFinalWitness ==
    /\ symPc = "failed"
    /\ startDate # ""
    /\ endDate # ""

\* C7: when the symbol fetch has succeeded with a list of length >= 1, the
\* options are the "Select Symbol" placeholder followed by one option per
\* returned symbol, in returned order and with the symbol as value, and the
\* selector is enabled; the step that completes the fetch leaves the first
\* returned symbol selected.
SelectorShowsSymbols ==
    [][(symPc' = "done" /\ Len(symbolsData') >= 1)
        => /\ Len(options') = Len(symbolsData') + 1
           /\ options'[1] = SelectOption
           /\ \A k \in 1..Len(symbolsData') :
                /\ options'[k + 1].value = symbolsData'[k]
                /\ options'[k + 1].text = symbolsData'[k]
                /\ ~options'[k + 1].disabled
           /\ ~disabled'
           /\ (symPc # "done"
                => selIdx' # 0 /\ options'[selIdx'].value = symbolsData'[1])]_vars

\* C7 witness: two different symbols were returned and the first is selected.
SelectorShowsSymbolsWitness ==
    /\ symPc = "done"
    /\ Len(symbolsData) >= 2
    /\ symbolsData[1] # symbolsData[2]
    /\ SelectValue = symbolsData[1]
    /\ calls = <<>>

\* C8: the array the candle series holds from the response parsed last is
\* sorted non-decreasing by time and a permutation of the received ohlc array.
CandlesSortedPermutation ==
    (candle.req # 0 /\ received.call = candle.req)
        => /\ IsSortedByTime(candle.data)
           /\ IsPermutation(candle.data, received.data.ohlc)

\* C8 witness: an ohlc array received out of order, with two bars of equal
\* time, has been set on the candle series.
CandlesSortedPermutationWitness ==
    /\ candle.req # 0
    /\ received.call = candle.req
    /\ Len(candle.data) >= 3
    /\ ~IsSortedByTime(received.data.ohlc)
    /\ \E j, k \in 1..Len(candle.data) : j # k /\ candle.data[j].time = candle.data[k].time

\* C9: the markers the candle series holds from the response parsed last are
\* sorted non-decreasing by time and a permutation of the received markers.
MarkersSortedPermutation ==
    (markers.req # 0 /\ received.call = markers.req)
        => /\ IsSortedByTime(markers.data)
           /\ IsPermutation(markers.data, received.data.markers)

\* C9 witness: markers received out of order have been set while the ohlc
\* array of the same response was received in order.
MarkersSortedPermutationWitness ==
    /\ markers.req # 0
    /\ received.call = markers.req
    /\ Len(markers.data) >= 2
    /\ ~IsSortedByTime(received.data.markers)
    /\ Len(received.data.ohlc) >= 2
    /\ IsSortedByTime(received.data.ohlc)

\* C10: if the library was absent when the DOMContentLoaded handler ran, one
\* alert (the library one) has been shown, no construction step has run, no
\* /symbols request and no data request has been issued, and no listener is
\* registered.
AbortWithoutLibrary ==
    (domReady /\ ~libPresent) =>
        /\ alerts = SetToBag({LibAlert})
        /\ built = 0
        /\ symRequests = 0
        /\ symPc = "idle"
        /\ ~listeners
        /\ calls = <<>>
        /\ ~loadingActive

\* C10 witness: the handler has aborted and the user has since changed both
\* date inputs.
AbortWithoutLibraryWitness ==
    /\ domReady
    /\ ~libPresent
    /\ startDate # ""
    /\ endDate # ""

\* the step starts one loadData activation for symbol: one request is issued
\* and the loading indicator is shown
StartsActivation(symbol) ==
    /\ Len(calls') = Len(calls) + 1
    /\ SubSeq(calls', 1, Len(calls)) = calls
    /\ calls'[Len(calls')].pc = "awaitFetch"
    /\ calls'[Len(calls')].symbol = symbol
    /\ loadingActive'

\* the user picks another option of the selector in this step
SelectionChanged == selIdx' # selIdx /\ symPc' = symPc

\* the user changes one of the date inputs in this step
DateChanged == startDate' # startDate \/ endDate' # endDate

\* C11: with the listeners registered, a selector change starts one
\* activation for the selector's value, a date change starts one for the
\* selector's value if that value is non-empty and otherwise changes nothing
\* but the date, and a click of the load button that changes the state starts
\* one for the selector's value.  No step starts more than one activation,
\* none is started for an empty value, and the loading indicator is only
\* shown by a step that starts one.
ListenersCallLoadData ==
    [][/\ (listeners /\ SelectionChanged) => StartsActivation(SelectValue')
       /\ (listeners /\ DateChanged) =>
            IF SelectValue # ""
            THEN StartsActivation(SelectValue)
            ELSE UNCHANGED <<initVars, alerts, domVars, symVars, loadingActive,
                             calls, seriesVars, received, legendVars>>
       /\ (ClickLoad /\ SelectValue # "") => StartsActivation(SelectValue)
       /\ Len(calls') # Len(calls) => (SelectValue' # "" /\ StartsActivation(SelectValue'))
       /\ (loadingActive' /\ ~loadingActive) => Len(calls') = Len(calls) + 1
      ]_vars

\* C11 witness: a date change while an activation for the selected symbol
\* was in flight has started a second one, with its own request.
ListenersCallLoadDataWitness ==
    /\ Len(calls) = 2
    /\ calls[1].pc = "awaitFetch"
    /\ calls[2].pc = "awaitFetch"
    /\ calls[1].symbol = calls[2].symbol
    /\ calls[1].url # calls[2].url

\* the URL of a data request for symbol that carries start_date exactly when
\* sd is non-empty and end_date exactly when ed is non-empty
ExpectedUrl(symbol, sd, ed) ==
    CASE sd = "" /\ ed = "" -> "/data/" \o symbol
      [] sd # "" /\ ed = "" -> "/data/" \o symbol \o "?start_date=" \o sd
      [] sd = "" /\ ed # "" -> "/data/" \o symbol \o "?end_date=" \o ed
      [] sd # "" /\ ed # "" -> "/data/" \o symbol \o "?start_date=" \o sd
                                           \o "&end_date=" \o ed

\* C12: the request of every activation a step starts goes to /data/<symbol>
\* with start_date present exactly when the start-date input is non-empty and
\* end_date exactly when the end-date input is non-empty, each with the value
\* the input holds when the activation starts, and with no query string when
\* both inputs are empty.
RequestUrlFollowsInputs ==
    [][Len(calls') = Len(calls) + 1 =>
        calls'[Len(calls')].url =
            ExpectedUrl(calls'[Len(calls')].symbol, startDate', endDate')]_vars

\* C12 witness: a request without query string and a request with only the
\* end date are in flight.
RequestUrlFollowsInputsWitness ==
    /\ Len(calls) = 2
    /\ calls[1].pc = "awaitFetch"
    /\ calls[1].url = "/data/AAPL"
    /\ calls[2].pc = "awaitFetch"
    /\ calls[2].url = "/data/AAPL?end_date=2024-01-02"

\* C13: when the handler has run with the library present and a construction
\* step threw, exactly one "Error initializing chart" alert has been shown,
\* the /symbols request has been issued once and the listeners are
\* registered; and the step in which an activation parses a response with a
\* non-empty ohlc array while a series is undefined returns from the
\* activation with the alert "Error loading data for <symbol>" added and the
\* loading indicator hidden.
ConstructionFailureContained ==
    [][/\ (domReady' /\ libPresent' /\ built' < BuildSteps) =>
            /\ CopiesIn(ChartInitAlert \o ConstructionMessage, alerts') = 1
            /\ symRequests' = 1
            /\ symPc' # "idle"
            /\ listeners'
       /\ \A i \in 1..Len(calls) :
            (/\ Parses(i)
             /\ "ohlc" \in DOMAIN received'.data
             /\ Len(received'.data.ohlc) > 0
             /\ ~(CandleDefined /\ VolumeDefined /\ VwapDefined /\ EmaDefined))
                => /\ Returns(i)
                   /\ calls'[i].outcome = "renderError"
                   /\ calls'[i].hides = 1
                   /\ alerts' = Alerted(LoadErrorAlert(calls[i].symbol))
                   /\ ~loadingActive'
      ]_vars

\* C13 witness: construction threw when adding the volume series; a later
\* activation set the candle data, threw at the undefined volume series and
\* returned with the indicator hidden.
ConstructionFailureContainedWitness ==
    /\ built = 3
    /\ Len(calls) = 1
    /\ HasReturned(1)
    /\ calls[1].outcome = "renderError"
    /\ candle.req = 1
    /\ volume.req = 0
    /\ ~loadingActive
    /\ CopiesIn(ChartInitAlert \o ConstructionMessage, alerts) = 1
    /\ CopiesIn(LoadErrorAlert("AAPL"), alerts) = 1

\* position of an activation in loadData: request pending, body pending,
\* returned
Rank(pc) == CASE pc = "awaitFetch" -> 1 [] pc = "awaitJson" -> 2 [] pc = "done" -> 3

\* C14: an activation starts with the indicator shown and its request
\* pending, and only moves forward: request settled, then body parsed, then
\* returned.  One step changes at most one activation.  The render steps all
\* belong to the step in which the activation parses its body and returns, in
\* the order candle, volume, VWAP, EMA, markers, fit: whatever that step sets
\* it sets for this activation, a later one is set only if every earlier one
\* was, and when the activation ends as rendered all six were set and the
\* indicator is hidden at the end of the step.
LoadStepsInOrder ==
    [][/\ Len(calls') >= Len(calls)
       /\ Len(calls') > Len(calls) =>
            (calls'[Len(calls')].pc = "awaitFetch" /\ loadingActive')
       /\ \A i \in 1..Len(calls) : Rank(calls'[i].pc) >= Rank(calls[i].pc)
       /\ \A i \in 1..Len(calls) : Returns(i) /\ calls[i].pc = "awaitFetch" =>
            calls'[i].outcome = "fetchFailed"
       /\ Cardinality({i \in 1..Len(calls) : calls'[i] # calls[i]}) <= 1
       /\ (fit' # fit) => (markers' # markers /\ fit' = markers'.req)
       /\ (markers' # markers) => (ema' # ema /\ markers'.req = ema'.req)
       /\ (ema' # ema) => (vwap' # vwap /\ ema'.req = vwap'.req)
       /\ (vwap' # vwap) => (volume' # volume /\ vwap'.req = volume'.req)
       /\ (volume' # volume) => (candle' # candle /\ volume'.req = candle'.req)
       /\ (candle' # candle) =>
            /\ candle'.req \in 1..Len(calls)
            /\ Parses(candle'.req)
            /\ Returns(candle'.req)
            /\ ~loadingActive'
       /\ \A i \in 1..Len(calls) : (Returns(i) /\ calls'[i].outcome = "rendered") =>
            /\ calls[i].pc = "awaitJson"
            /\ candle'.req = i /\ volume'.req = i /\ vwap'.req = i /\ ema'.req = i
            /\ markers'.req = i /\ fit' = i
            /\ calls'[i].hides = 1
            /\ ~loadingActive'
      ]_vars

\* C14 witness: the first activation went through all its steps and rendered
\* while the second, started before the first one's body arrived, is still
\* waiting for its own body.
LoadStepsInOrderWitness ==
    /\ Len(calls) = 2
    /\ HasReturned(1)
    /\ calls[1].outcome = "rendered"
    /\ calls[2].pc = "awaitJson"
    /\ received.call = 1
    /\ candle.req = 1 /\ volume.req = 1 /\ vwap.req = 1 /\ ema.req = 1
    /\ markers.req = 1 /\ fit = 1
    /\ ~loadingActive

\* C15: once an activation has returned, the candle, volume, VWAP and EMA
\* data and the markers all come from the same response (or none has been
\* set).  Stated for a completely constructed chart and a last parsed
\* response that carries volume, vwap and ema, so that only the handling of
\* the response itself is in question.
SeriesFromOneResponse ==
    (/\ built = BuildSteps
     /\ \E i \in 1..Len(calls) : HasReturned(i)
     /\ {"volume", "vwap", "ema"} \subseteq DOMAIN received.data)
        => /\ candle.req = volume.req
           /\ volume.req = vwap.req
           /\ vwap.req = ema.req
           /\ ema.req = markers.req

\* no series holds data, no markers are set and the chart was never fitted
ChartEmpty ==
    /\ candle.req = 0 /\ volume.req = 0 /\ vwap.req = 0 /\ ema.req = 0
    /\ markers.req = 0 /\ fit = 0

\* C16: the steps of the page load (the DOMContentLoaded handler and the two
\* settlings of the symbol fetch) start no loadData activation and leave the
\* indicator and the chart alone; the step that completes the symbol fetch
\* with a non-empty list selects its first symbol; and whatever the user does
\* before that step, after every step taken while the symbol fetch has not
\* succeeded no data request has been issued and the chart is empty.  So the
\* first data request is issued by a click, a selector change or a date
\* change that follows the successful symbol fetch.
NoLoadBeforeUserEvent ==
    [][/\ (domReady' # domReady \/ symPc' # symPc) =>
            UNCHANGED <<loadingActive, calls, seriesVars, received>>
       /\ (symPc # "done" /\ symPc' = "done" /\ Len(symbolsData') > 0) =>
            (options'[selIdx'].value = symbolsData'[1] /\ calls' = <<>>)
       /\ symPc # "done" => (calls' = <<>> /\ ~loadingActive')
       /\ calls' = <<>> => (candle'.req = 0 /\ volume'.req = 0 /\ vwap'.req = 0
                            /\ ema'.req = 0 /\ markers'.req = 0 /\ fit' = 0)
      ]_vars

\* C16 witness: the symbol fetch succeeded after the user had set the start
\* date; the first symbol is selected, no request has been issued and the
\* chart is empty.
NoLoadBeforeUserEventWitness ==
    /\ symPc = "done"
    /\ SelectValue = "AAPL"
    /\ startDate # ""
    /\ calls = <<>>
    /\ ~loadingActive
    /\ ChartEmpty

\* C17 as stated: the selector is enabled if and only if the symbol fetch has
\* completed successfully, here in every state after the DOMContentLoaded
\* handler has run.
SelectorEnabledIffFetched == domReady => (~disabled <=> symPc = "done")

\* C17: from the call of fetchSymbols on, the selector is enabled if and only
\* if the symbol fetch has completed successfully: while the fetch is in
\* flight it is disabled with the "Loading symbols..." placeholder as its only
\* option, and after a failed fetch it is disabled with the error placeholder
\* as its only option, the failure being final.  Before the call, and for
\* good when the library is absent, the selector is as the markup has it.
SelectorGuardedByFetch ==
    [][/\ symPc' # "idle" => (~disabled' <=> symPc' = "done")
       /\ symPc' \in {"awaitFetch", "awaitJson"} =>
            (disabled' /\ options' = <<LoadingOption>> /\ selIdx' = 1)
       /\ symPc' = "failed" => (disabled' /\ options' = <<ErrorOption>>)
       /\ symPc = "failed" => symPc' = "failed"
       /\ symPc = "idle" => symPc' \in {"idle", "awaitFetch"}
      ]_vars

\* C17 witness: the response to /symbols had no symbols array; the exception
\* was raised after the placeholder had been replaced, and the selector is
\* left disabled with the error option while the user changes a date.
SelectorGuardedByFetchWitness ==
    /\ symPc = "failed"
    /\ disabled
    /\ options = <<ErrorOption>>
    /\ CopiesIn(SymbolsAlert \o TypeErrorMessage, alerts) = 1
    /\ endDate # ""

\* C18: after every crosshair-move event the legend is displayed if the
\* event's point is defined and inside the container (edges included), its
\* time is truthy and the candle series holds a bar at that time, and hidden
\* otherwise; when displayed its symbol line is the selector's value at the
\* time of the event ('N/A' for an empty value), whichever symbol the
\* rendered data was requested for.
LegendFollowsCrosshair ==
    [][(crosshair' # crosshair \/ legend' # legend) =>
        LET param == crosshair'
            inside == /\ "point" \in DOMAIN param
                      /\ param.point.x \in 0..ClientWidth
                      /\ param.point.y \in 0..ClientHeight
            shown  == /\ inside
                      /\ param.time # 0
                      /\ \E k \in 1..Len(candle.data) : candle.data[k].time = param.time
        IN  /\ legend'.display = (IF shown THEN "block" ELSE "none")
            /\ shown => legend'.symbol = (IF SelectValue = "" THEN "N/A" ELSE SelectValue)
            /\ ~shown => legend'.symbol = legend.symbol
      ]_vars

\* C18 witness: the chart shows the data loaded for MSFT, the user has since
\* selected AAPL, whose request is still pending, and a crosshair move to the
\* container's far corner has displayed the legend with the symbol AAPL.
LegendFollowsCrosshairWitness ==
    /\ Len(calls) = 2
    /\ HasReturned(1)
    /\ calls[1].symbol = "MSFT"
    /\ calls[1].outcome = "rendered"
    /\ candle.req = 1
    /\ calls[2].pc = "awaitFetch"
    /\ SelectValue = "AAPL"
    /\ crosshair = [point |-> [x |-> ClientWidth, y |-> ClientHeight], time |-> 1]
    /\ legend.display = "block"
    /\ legend.symbol = "AAPL"

====
